---- MODULE Spec2Model ----
(***************************************************************************)
(* PLECscore (oddt/scoring/functions/PLECscore.py): the scorer adapter     *)
(* that binds the PLEC fingerprint to a regressor, and its lifecycle       *)
(* operations __init__, gen_training_data, gen_json, train and load.       *)
(*                                                                         *)
(* The state is the caller's adapter object, the filesystem, and a record  *)
(* of the last operation: its arguments, what it returned or raised, and   *)
(* the calls it made to its collaborators, in order.                       *)
(***************************************************************************)
EXTENDS Integers, Sequences, FiniteSets, TLC

VARIABLES sf, files, last, nops

vars == <<sf, files, last, nops>>

(* ----------------------------- bounds --------------------------------- *)

\* number of operations in one run
MaxOps == 4

(* ------------------------- values and inputs --------------------------- *)

None == "<None>"

Versions == {"linear", "nn", "rf"}
\* version strings handed to the constructor, one of them unsupported
VersionArgs == Versions \cup {"svm"}

\* benchmark versions; 2016 is the default of every pdbbind_version argument
DefaultPdbbind == 2016
PdbbindVersions == {2016, 2007}

\* constructor defaults
DefaultDepthProtein == 5
DefaultDepthLigand == 1
DefaultSize == 65536

\* home_dir arguments: unspecified, the empty string, a directory
HomeDirArgs == {None, "", "data"}

\* dirname(__file__), and path_join(dirname(__file__), 'PLECscore')
ModuleDir == "<module>"
ModuleHome == "<module>/PLECscore"

(* a file name: the fields the '%' format puts into it *)
FileName(kind, version, p, l, s, pv) ==
    [kind |-> kind, version |-> version, p |-> p, l |-> l, s |-> s, pv |-> pv]

\* 'plecscore_descs_p%i_l%i_s%i.csv'
desc_filename(self) ==
    FileName("csv", "-", self.depth_protein, self.depth_ligand, self.size, 0)

\* 'plecscore_%s_p%i_l%i_s%i_pdbbind%i.json'
json_filename(self, pdbbind_version) ==
    FileName("json", self.version, self.depth_protein, self.depth_ligand,
             self.size, pdbbind_version)

\* 'PLEC%s_p%i_l%i_pdbbind%i_s%i.pickle'
pickle_filename(self, pdbbind_version) ==
    FileName("pickle", self.version, self.depth_protein, self.depth_ligand,
             self.size, pdbbind_version)

\* a file name the caller chose for the artifact
UserPickle == FileName("user", "-", 0, 0, 0, 0)

\* os.path.join(dir, name); an empty dir leaves the bare (cwd-relative) name
path_join(dir, name) == [dir |-> dir, name |-> name]

\* a bare file name is relative to the current directory
bare(name) == [dir |-> "", name |-> name]

NoPath == [dir |-> None, name |-> FileName("-", "-", 0, 0, 0, 0)]

(* ------------------------------ values --------------------------------- *)

\* attribute and JSON values: a tag and the numbers, as rows
Num(x) == [t |-> "num", v |-> <<<<x>>>>]
List(xs) == [t |-> "list", v |-> <<xs>>]
Nested(rows) == [t |-> "nested", v |-> rows]
NdArray(xs) == [t |-> "ndarray", v |-> <<xs>>]
NdArrays(rows) == [t |-> "ndarrays", v |-> rows]
EmptyList == List(<<>>)

NoExc == [type |-> "None", arg |-> ""]
Exc(type, arg) == [type |-> type, arg |-> arg]

\* one call to a collaborator
Call(fn, path, arg, pv) == [fn |-> fn, path |-> path, arg |-> arg, pv |-> pv]

(* ------------------------------ models --------------------------------- *)

ModelClass(version) ==
    CASE version = "linear" -> "SGDRegressor"
      [] version = "nn" -> "MLPRegressor"
      [] version = "rf" -> "RandomForestRegressor"

\* the hyperparameters the constructor sets (one per variant is kept)
NewModel(version) ==
    CASE version = "linear" ->
            [cls |-> "SGDRegressor", attrs |-> ("fit_intercept" :> Num(0))]
      [] version = "nn" ->
            [cls |-> "MLPRegressor", attrs |-> ("batch_size" :> Num(10))]
      [] version = "rf" ->
            [cls |-> "RandomForestRegressor",
             attrs |-> ("n_estimators" :> Num(100))]

NoModel == [cls |-> "-", attrs |-> ("-" :> Num(0))]

\* the adapter before any has been constructed
NoSf == [version |-> "-", depth_protein |-> 0, depth_ligand |-> 0, size |-> 0,
         model |-> NoModel, descriptors |-> FALSE, data |-> 0]

(* ---------------------------- __init__ --------------------------------- *)

\* PLECscore(version=version): the object built, the exception raised and the
\* calls made, in the order of the constructor's statements
PLECscore_init(version) ==
    LET built == <<Call("partial", NoPath, "PLEC", 0),
                   Call("universal_descriptor", NoPath, "sparse", 0)>>
    IN  IF version \in Versions
        THEN [self |-> [version |-> version,
                        depth_protein |-> DefaultDepthProtein,
                        depth_ligand |-> DefaultDepthLigand,
                        size |-> DefaultSize,
                        model |-> NewModel(version),
                        descriptors |-> TRUE,
                        data |-> 0],
              exc |-> NoExc,
              calls |-> built \o <<Call(ModelClass(version), NoPath, "", 0),
                                   Call("scorer.__init__", NoPath, version, 0)>>]
        ELSE [self |-> NoSf,
              exc |-> Exc("ValueError", version),
              calls |-> built]

(* ----------------------------- filesystem ------------------------------ *)

JsonFile(doc) == [kind |-> "json", doc |-> doc, obj |-> NoSf]
CsvFile == [kind |-> "csv", doc |-> <<>>, obj |-> NoSf]
PickleFile(self) == [kind |-> "pickle", doc |-> <<>>, obj |-> self]

\* os.path.isfile
isfile(fs, path) == path \in DOMAIN fs

\* open(path, 'w') and write
WriteFile(fs, path, content) ==
    [q \in (DOMAIN fs) \cup {path} |-> IF q = path THEN content ELSE fs[q]]

\* the result of a method: the object and filesystem it leaves, what it
\* returns or raises, and the calls it made
Result(self, fs, ret, exc, calls) ==
    [self |-> self, files |-> fs, ret |-> ret, exc |-> exc, calls |-> calls]

(* ------------------- the scorer base class (oddt.scoring) -------------- *)

\* scorer._gen_pdbbind_desc: writes the descriptor CSV at desc_path
gen_pdbbind_desc(fs, desc_path) == WriteFile(fs, desc_path, CsvFile)

\* scorer._load_pdbbind_desc: reads the descriptor CSV into train_descs,
\* train_target, test_descs, test_target; a missing file is an IOError
load_pdbbind_desc(self, fs, desc_path, pdbbind_version) ==
    IF isfile(fs, desc_path) /\ fs[desc_path].kind = "csv"
    THEN [self |-> [self EXCEPT !.data = pdbbind_version], exc |-> NoExc]
    ELSE [self |-> self, exc |-> Exc("IOError", "desc_path")]

\* scorer.save: pickles the adapter at filename and returns filename
save(self, fs, filename) ==
    [files |-> WriteFile(fs, filename, PickleFile(self)), ret |-> filename]

\* scorer.load: unpickles the adapter at filename
scorer_load(fs, filename) ==
    IF filename # NoPath /\ isfile(fs, filename) /\ fs[filename].kind = "pickle"
    THEN [obj |-> fs[filename].obj, exc |-> NoExc]
    ELSE [obj |-> NoSf, exc |-> Exc("IOError", "filename")]

(* ------------------------------- train --------------------------------- *)

\* what model.fit leaves in the model, per class
FitAttrs(cls, pdbbind_version) ==
    CASE cls = "SGDRegressor" ->
            ("coef_" :> NdArray(<<pdbbind_version>>)) @@
            ("intercept_" :> NdArray(<<0>>))
      [] cls = "MLPRegressor" ->
            ("loss_" :> Num(pdbbind_version)) @@
            ("coefs_" :> NdArrays(<<<<pdbbind_version>>, <<1>>>>)) @@
            ("intercepts_" :> NdArrays(<<<<0>>, <<0>>>>)) @@
            ("n_iter_" :> Num(1)) @@ ("n_layers_" :> Num(5)) @@
            ("n_outputs_" :> Num(1)) @@ ("out_activation_" :> Num(0))
      [] cls = "RandomForestRegressor" ->
            ("estimators_" :> NdArray(<<pdbbind_version>>)) @@
            ("oob_prediction_" :> NdArray(<<pdbbind_version>>))

\* model.fit(X, y)
fit(model, pdbbind_version) ==
    [model EXCEPT !.attrs = FitAttrs(model.cls, pdbbind_version) @@ @]

\* setattr(model, k, v)
setattr(model, k, v) == [model EXCEPT !.attrs = (k :> v) @@ @]

\* lines 137-141: a JSON list becomes an array, a list of lists a list of
\* arrays; v[0] of an empty list is an IndexError
FromJson(v) ==
    IF v.t \in {"list", "nested"}
    THEN IF v = EmptyList
         THEN [exc |-> Exc("IndexError", "v[0]"), v |-> v]
         ELSE IF v.t = "nested"
              THEN [exc |-> NoExc, v |-> NdArrays(v.v)]
              ELSE [exc |-> NoExc, v |-> NdArray(v.v[1])]
    ELSE [exc |-> NoExc, v |-> v]

\* lines 136-142: for k, v in json_data.items(): ... setattr(self.model, k, v)
RECURSIVE LoadJsonAttrs(_, _, _)
LoadJsonAttrs(model, json_data, i) ==
    IF i > Len(json_data)
    THEN [model |-> model, exc |-> NoExc]
    ELSE LET c == FromJson(json_data[i].v)
         IN  IF c.exc # NoExc
             THEN [model |-> model, exc |-> c.exc]
             ELSE LoadJsonAttrs(setattr(model, json_data[i].k, c.v),
                                json_data, i + 1)

\* line 117-118: the directory train works in
TrainHome(home_dir) ==
    IF home_dir \in {None, ""} THEN ModuleHome ELSE home_dir

\* the fast path taken without regard to ignore_json
UseJson_IgnoreFlagDropped(self, fs, json_path, ignore_json) ==
    /\ self.version \in {"linear"}
    /\ isfile(fs, json_path)

\* lines 127-129: the condition of the fast path
UseJson(self, fs, json_path, ignore_json) ==
    /\ self.version \in {"linear"}
    /\ isfile(fs, json_path)
    /\ ~ignore_json

\* the sparse matrix handed to fit for every variant
FitMatrix_NeverDense(version) == "sparse"

\* lines 154-157: the matrix handed to model.fit
FitMatrix(version) == IF version = "rf" THEN "dense" ELSE "sparse"

\* lines 160-161: the matrix handed to model.predict
PredictMatrix(version) == "sparse"

\* lines 172-177: where the adapter is pickled
PicklePath(self, sf_pickle, pdbbind_version) ==
    IF sf_pickle = NoPath
    THEN bare(pickle_filename(self, pdbbind_version))
    ELSE sf_pickle

\* PLECscore.train
train(self, fs, home_dir, sf_pickle, pdbbind_version, ignore_json) ==
    LET hd == TrainHome(home_dir)
        desc_path == path_join(hd, desc_filename(self))
        json_path == path_join(hd, json_filename(self, pdbbind_version))
        probe == IF self.version \in {"linear"}
                 THEN <<Call("isfile", json_path,
                             IF isfile(fs, json_path) THEN "True" ELSE "False",
                             pdbbind_version)>>
                 ELSE <<>>
    IN  IF UseJson(self, fs, json_path, ignore_json)
        THEN LET r == LoadJsonAttrs(self.model, fs[json_path].doc, 1)
             IN  Result([self EXCEPT !.model = r.model], fs, NoPath, r.exc,
                        probe \o <<Call("json.load", json_path, "",
                                        pdbbind_version)>>)
        ELSE LET ld == load_pdbbind_desc(self, fs, desc_path, pdbbind_version)
                 c1 == probe \o <<Call("_load_pdbbind_desc", desc_path,
                                       "general,refined", pdbbind_version)>>
             IN  IF ld.exc # NoExc
                 THEN Result(self, fs, NoPath, ld.exc, c1)
                 ELSE LET fitted == [ld.self EXCEPT
                                       !.model = fit(@, pdbbind_version)]
                          sv == save(fitted, fs,
                                     PicklePath(self, sf_pickle,
                                                pdbbind_version))
                      IN  Result(fitted, sv.files, sv.ret, NoExc,
                                 c1 \o
                                 <<Call("fit", NoPath,
                                        FitMatrix(self.version),
                                        pdbbind_version),
                                   Call("predict(test_descs)", NoPath,
                                        PredictMatrix(self.version),
                                        pdbbind_version),
                                   Call("predict(train_descs)", NoPath,
                                        PredictMatrix(self.version),
                                        pdbbind_version),
                                   Call("save", sv.ret, "", pdbbind_version)>>)

(* ------------------------- gen_training_data --------------------------- *)

\* lines 74-75: the directory gen_training_data works in
GenHome(home_dir) == IF home_dir = None THEN ModuleHome ELSE home_dir

\* PLECscore.gen_training_data
gen_training_data(self, fs, home_dir) ==
    LET filename == path_join(GenHome(home_dir), desc_filename(self))
    IN  Result(self, gen_pdbbind_desc(fs, filename), NoPath, NoExc,
               <<Call("_gen_pdbbind_desc", filename, "sparse", 0)>>)

(* ------------------------------ gen_json ------------------------------- *)

\* lines 90-94: the attribute list; no branch binds it for the random forest
Attributes(cls) ==
    CASE cls = "SGDRegressor" -> <<"coef_", "intercept_">>
      [] cls = "MLPRegressor" ->
            <<"loss_", "coefs_", "intercepts_", "n_iter_", "n_layers_",
              "n_outputs_", "out_activation_">>
      [] OTHER -> <<>>

AttributesBound(cls) == cls \in {"SGDRegressor", "MLPRegressor"}

\* line 100: isinstance(attr, np.array); np.array is a function, not a type,
\* and isinstance raises TypeError for every attr
isinstance_np_array(attr) ==
    [exc |-> Exc("TypeError", "isinstance() arg 2 must be a type"),
     val |-> FALSE]

\* lines 101 and 104: ndarray.tolist()
tolist(attr) ==
    CASE attr.t = "ndarray" -> List(attr.v[1])
      [] attr.t = "ndarrays" -> Nested(attr.v)
      [] OTHER -> attr

\* lines 97-105: for attr_name in attributes: ... out[attr_name] = attr
RECURSIVE ExportAttrs(_, _, _, _)
ExportAttrs(model, attributes, i, out) ==
    IF i > Len(attributes)
    THEN [out |-> out, exc |-> NoExc]
    ELSE IF attributes[i] \notin DOMAIN model.attrs
         THEN [out |-> out, exc |-> Exc("AttributeError", attributes[i])]
         ELSE LET attr == model.attrs[attributes[i]]
                  chk == isinstance_np_array(attr)
              IN  IF chk.exc # NoExc
                  THEN [out |-> out, exc |-> chk.exc]
                  ELSE ExportAttrs(model, attributes, i + 1,
                                   Append(out, [k |-> attributes[i],
                                                v |-> tolist(attr)]))

\* line 89: the training gen_json performs
GenJsonTrain(self, fs, home_dir, pdbbind_version) ==
    train(self, fs, home_dir, NoPath, DefaultPdbbind, FALSE)

\* PLECscore.gen_json
gen_json(self, fs, home_dir, pdbbind_version) ==
    LET t == GenJsonTrain(self, fs, home_dir, pdbbind_version)
    IN  IF t.exc # NoExc
        THEN t
        ELSE IF ~AttributesBound(t.self.model.cls)
        THEN Result(t.self, t.files, NoPath,
                    Exc("UnboundLocalError", "attributes"), t.calls)
        ELSE LET e == ExportAttrs(t.self.model,
                                  Attributes(t.self.model.cls), 1, <<>>)
             IN  IF e.exc # NoExc
                 THEN Result(t.self, t.files, NoPath, e.exc, t.calls)
                 ELSE IF home_dir = None
                 THEN Result(t.self, t.files, NoPath,
                             Exc("TypeError", "path_join"), t.calls)
                 ELSE LET json_path ==
                              path_join(home_dir,
                                        json_filename(t.self, pdbbind_version))
                      IN  Result(t.self,
                                 WriteFile(t.files, json_path, JsonFile(e.out)),
                                 json_path, NoExc,
                                 t.calls \o <<Call("json.dump", json_path, "",
                                                   pdbbind_version)>>)

(* -------------------------------- load --------------------------------- *)

\* the attributes the class body defines: methods only, so that the reads of
\* self.version, self.depth_protein, self.depth_ligand and self.size on the
\* class at lines 184-185 find nothing
ClassAttributes == {"__init__", "gen_training_data", "gen_json", "train",
                    "load"}

\* PLECscore.load (a classmethod: self is the class)
load(fs, filename, version, pdbbind_version) ==
    IF filename = NoPath /\ "version" \notin ClassAttributes
    THEN Result(NoSf, fs, NoPath, Exc("AttributeError", "version"), <<>>)
    ELSE LET r == scorer_load(fs, filename)
         IN  Result(r.obj, fs, filename, r.exc,
                    <<Call("scorer.load", filename, "", pdbbind_version)>>)

(* ------------------------------ the state ------------------------------ *)

\* JSON parameter documents as installed beside the module or put into a
\* home directory: the published weights, a document with further keys, and
\* a document with an empty list
DocPublished == <<[k |-> "coef_", v |-> List(<<1, 2>>)],
                  [k |-> "intercept_", v |-> List(<<0>>)]>>
DocExtra == <<[k |-> "coef_", v |-> List(<<1, 2>>)],
              [k |-> "intercept_", v |-> List(<<0>>)],
              [k |-> "fit_intercept", v |-> Num(1)],
              [k |-> "coefs_", v |-> Nested(<<<<1>>, <<2>>>>)]>>
DocEmpty == <<[k |-> "intercept_", v |-> List(<<0>>)],
              [k |-> "coef_", v |-> EmptyList]>>
JsonDocs == {DocPublished, DocExtra, DocEmpty}

DefaultJsonName(version, pdbbind_version) ==
    FileName("json", version, DefaultDepthProtein, DefaultDepthLigand,
             DefaultSize, pdbbind_version)

JsonInitPaths ==
    {path_join(ModuleHome, DefaultJsonName("linear", 2016)),
     path_join(ModuleHome, DefaultJsonName("nn", 2016)),
     path_join(ModuleHome, DefaultJsonName("linear", 2007)),
     path_join("data", DefaultJsonName("linear", 2016))}

\* artifact paths handed to train and load: none, or a name in the cwd
PickleArgs == {NoPath, bare(UserPickle)}

Op(op, version, home_dir, sf_pickle, pdbbind_version, ignore_json, r) ==
    [op |-> op, version |-> version, home_dir |-> home_dir,
     sf_pickle |-> sf_pickle, pdbbind_version |-> pdbbind_version,
     ignore_json |-> ignore_json,
     ret |-> r.ret, exc |-> r.exc, calls |-> r.calls]

NoOp == [op |-> "-", version |-> "-", home_dir |-> None, sf_pickle |-> NoPath,
         pdbbind_version |-> 0, ignore_json |-> FALSE,
         ret |-> NoPath, exc |-> NoExc, calls |-> <<>>]

Init ==
    /\ sf = NoSf
    /\ \E S \in SUBSET JsonInitPaths : \E doc \in JsonDocs :
          files = [q \in S |-> JsonFile(doc)]
    /\ last = NoOp
    /\ nops = 0

\* sf = PLECscore(version=version)
Construct(version) ==
    /\ nops < MaxOps
    /\ LET r == PLECscore_init(version)
       IN  /\ sf' = IF r.exc = NoExc THEN r.self ELSE sf
           /\ last' = Op("__init__", version, None, NoPath, 0, FALSE,
                         [ret |-> NoPath, exc |-> r.exc, calls |-> r.calls])
    /\ nops' = nops + 1
    /\ UNCHANGED files

\* sf.gen_training_data(pdbbind_dir, home_dir=home_dir)
GenTrainingData(home_dir) ==
    /\ nops < MaxOps
    /\ sf # NoSf
    /\ LET r == gen_training_data(sf, files, home_dir)
       IN  /\ sf' = r.self
           /\ files' = r.files
           /\ last' = Op("gen_training_data", sf.version, home_dir, NoPath, 0,
                         FALSE, r)
    /\ nops' = nops + 1

\* sf.gen_json(home_dir=home_dir, pdbbind_version=pdbbind_version)
GenJson(home_dir, pdbbind_version) ==
    /\ nops < MaxOps
    /\ sf # NoSf
    /\ LET r == gen_json(sf, files, home_dir, pdbbind_version)
       IN  /\ sf' = r.self
           /\ files' = r.files
           /\ last' = Op("gen_json", sf.version, home_dir, NoPath,
                         pdbbind_version, FALSE, r)
    /\ nops' = nops + 1

\* sf.train(home_dir, sf_pickle, pdbbind_version, ignore_json)
Train(home_dir, sf_pickle, pdbbind_version, ignore_json) ==
    /\ nops < MaxOps
    /\ sf # NoSf
    /\ LET r == train(sf, files, home_dir, sf_pickle, pdbbind_version,
                      ignore_json)
       IN  /\ sf' = r.self
           /\ files' = r.files
           /\ last' = Op("train", sf.version, home_dir, sf_pickle,
                         pdbbind_version, ignore_json, r)
    /\ nops' = nops + 1

\* sf = PLECscore.load(filename, version, pdbbind_version)
Load(filename, version, pdbbind_version) ==
    /\ nops < MaxOps
    /\ LET r == load(files, filename, version, pdbbind_version)
       IN  /\ sf' = IF r.exc = NoExc THEN r.self ELSE sf
           /\ files' = r.files
           /\ last' = Op("load", version, None, filename, pdbbind_version,
                         FALSE, r)
    /\ nops' = nops + 1

Next ==
    \/ \E version \in VersionArgs : Construct(version)
    \/ \E home_dir \in HomeDirArgs : GenTrainingData(home_dir)
    \/ \E home_dir \in HomeDirArgs, pdbbind_version \in PdbbindVersions :
          GenJson(home_dir, pdbbind_version)
    \/ \E home_dir \in HomeDirArgs, sf_pickle \in PickleArgs,
          pdbbind_version \in PdbbindVersions, ignore_json \in BOOLEAN :
          Train(home_dir, sf_pickle, pdbbind_version, ignore_json)
    \/ \E filename \in PickleArgs, version \in Versions,
          pdbbind_version \in PdbbindVersions :
          Load(filename, version, pdbbind_version)

Spec == Init /\ [][Next]_vars

(* ------------------------------ properties ----------------------------- *)

Called(op, fn) == \E i \in 1..Len(op.calls) : op.calls[i].fn = fn

CallsOf(op, fn) == {op.calls[i] : i \in {j \in 1..Len(op.calls) : op.calls[j].fn = fn}}

ModelCtors == {"SGDRegressor", "MLPRegressor", "RandomForestRegressor"}
ExtractorCtors == {"partial", "universal_descriptor"}

\* C1: constructing with a version outside {linear, nn, rf} raises an error
\* that names the value, and when it is raised neither the feature extractor
\* nor a model has been constructed.
C1_InvalidVersionBuildsNothing ==
    (last.op = "__init__" /\ last.version \notin Versions) =>
        /\ last.exc = Exc("ValueError", last.version)
        /\ \A i \in 1..Len(last.calls) :
              last.calls[i].fn \notin (ModelCtors \cup ExtractorCtors)

\* the JSON document train looks for, given the adapter and the arguments
TrainJsonPath(self, home_dir, pdbbind_version) ==
    path_join(IF home_dir \in {None, ""} THEN ModuleHome ELSE home_dir,
              FileName("json", self.version, self.depth_protein,
                       self.depth_ligand, self.size, pdbbind_version))

FastObserved(op) ==
    /\ Called(op, "json.load")
    /\ ~Called(op, "_load_pdbbind_desc")
    /\ ~Called(op, "fit")

\* the loader is invoked and the model is fit on what it returns; a loader
\* that raises (descriptor CSV missing) ends the call with its IOError
SlowObserved(op) ==
    /\ ~Called(op, "json.load")
    /\ Called(op, "_load_pdbbind_desc")
    /\ Called(op, "fit") \/ op.exc = Exc("IOError", "desc_path")

\* C2: train takes the fast path (parameters read from the JSON document,
\* dataset loader and fit not called) exactly when the version is linear, a
\* JSON document exists at the deterministic path and ignore_json is false;
\* in every other case, also when ignore_json is set and the document exists,
\* the dataset loader is invoked and the model is fit.
C2_FastPathExactly ==
    [][(last'.op = "train" /\ nops' = nops + 1) =>
         LET cond == /\ sf.version = "linear"
                     /\ TrainJsonPath(sf, last'.home_dir,
                                      last'.pdbbind_version) \in DOMAIN files
                     /\ ~last'.ignore_json
         IN  /\ cond => FastObserved(last')
             /\ ~cond => SlowObserved(last')]_vars

\* a linear adapter trained with ignore_json set while the JSON document
\* exists: the loader ran and the model was fit
C2_Witness ==
    /\ last.op = "train"
    /\ last.version = "linear"
    /\ last.ignore_json
    /\ TrainJsonPath(sf, last.home_dir, last.pdbbind_version) \in DOMAIN files
    /\ Called(last, "_load_pdbbind_desc")
    /\ Called(last, "fit")

\* C3: every train call that completes without error has pickled the adapter
\* (at sf_pickle if given, else at the default file name) and returns the
\* path of that artifact, on the fast path as well as on the slow path.
C3_TrainPersistsAndReturnsPath ==
    (last.op = "train" /\ last.exc = NoExc) =>
        /\ last.ret = IF last.sf_pickle # NoPath
                      THEN last.sf_pickle
                      ELSE bare(FileName("pickle", sf.version, sf.depth_protein,
                                         sf.depth_ligand, sf.size,
                                         last.pdbbind_version))
        /\ last.ret \in DOMAIN files
        /\ files[last.ret] = PickleFile(sf)

Fitted(self) ==
    \A a \in DOMAIN FitAttrs(self.model.cls, DefaultPdbbind) :
        a \in DOMAIN self.model.attrs

\* C4: load with no explicit path and no artifact at the probed locations
\* constructs an adapter of the requested version, trains it on the slow path
\* (loader, fit, artifact written), unpickles the artifact train returned and
\* returns a fitted adapter, for every version and whether or not a JSON
\* document exists.
C4_LoadTrainsWhenNoArtifact ==
    [][(/\ last'.op = "load"
        /\ nops' = nops + 1
        /\ last'.sf_pickle = NoPath
        /\ \A q \in DOMAIN files : files[q].kind # "pickle") =>
         /\ last'.exc = NoExc
         /\ Called(last', "_load_pdbbind_desc")
         /\ Called(last', "fit")
         /\ Called(last', "save")
         /\ last'.ret \in DOMAIN files'
         /\ sf'.version = last'.version
         /\ Fitted(sf')]_vars

\* np.array(x) of an exported list
AsArray(v) == IF v.t = "list" THEN NdArray(v.v[1]) ELSE v

\* C5: gen_json on a linear adapter completes and writes a JSON document, and
\* a following train with the same home_dir and version, ignore_json false,
\* restores the exported coef_ and intercept_ without the loader or fit.
C5_ExportThenTrainRoundTrip ==
    [][(/\ last'.op = "gen_json"
        /\ nops' = nops + 1
        /\ sf.version = "linear"
        /\ last'.exc.type \notin {"IOError", "IndexError"}) =>
         /\ last'.exc = NoExc
         /\ last'.ret \in DOMAIN files'
         /\ files'[last'.ret].kind = "json"
         /\ LET doc == files'[last'.ret].doc
                t == train(sf', files', last'.home_dir, NoPath,
                           last'.pdbbind_version, FALSE)
            IN  /\ t.exc = NoExc
                /\ FastObserved(t)
                /\ \A i \in 1..Len(doc) :
                      /\ doc[i].k \in {"coef_", "intercept_"}
                      /\ t.self.model.attrs[doc[i].k] = AsArray(doc[i].v)
                      /\ t.self.model.attrs[doc[i].k] =
                            sf'.model.attrs[doc[i].k]]_vars

\* C6: gen_json on a random-forest adapter ends in an error raised before any
\* training and before any file is written: model and filesystem unchanged.
C6_ExportRfFailsFast ==
    [][(last'.op = "gen_json" /\ nops' = nops + 1 /\ sf.version = "rf") =>
         /\ last'.exc # NoExc
         /\ ~Called(last', "fit")
         /\ ~Called(last', "save")
         /\ files' = files
         /\ sf' = sf]_vars

DocumentedAttrs == {"coef_", "intercept_"}

\* C7: on the fast path of train only coef_ and intercept_ are written: for
\* every JSON document, also one with further keys, no other attribute of the
\* model is created or overwritten.
C7_FastPathWritesOnlyDocumented ==
    [][(last'.op = "train" /\ nops' = nops + 1 /\ Called(last', "json.load")) =>
         \A a \in (DOMAIN sf.model.attrs \cup DOMAIN sf'.model.attrs)
                     \ DocumentedAttrs :
            /\ a \in DOMAIN sf.model.attrs
            /\ a \in DOMAIN sf'.model.attrs
            /\ sf'.model.attrs[a] = sf.model.attrs[a]]_vars

ModelCalls == {"fit", "predict(test_descs)", "predict(train_descs)"}

\* C8 as stated: for the random forest every matrix handed to the model on the
\* slow path, in fit and in both predict calls, is dense; for linear and nn
\* it is the sparse matrix.
C8_RfDenseInFitAndPredict ==
    \A i \in 1..Len(last.calls) :
        last.calls[i].fn \in ModelCalls =>
            last.calls[i].arg =
                IF last.version = "rf" THEN "dense" ELSE "sparse"

\* C8: on the slow path the matrix handed to fit is dense for the random
\* forest and sparse for linear and nn; the matrices handed to the two predict
\* calls (test and train set) are sparse for every version.
C8_RfDenseInFitOnly ==
    \A i \in 1..Len(last.calls) :
        /\ last.calls[i].fn = "fit" =>
              last.calls[i].arg =
                  IF last.version = "rf" THEN "dense" ELSE "sparse"
        /\ last.calls[i].fn \in ModelCalls \ {"fit"} =>
              last.calls[i].arg = "sparse"

\* a random-forest adapter trained on the slow path: fit and both predicts
C8_Witness ==
    /\ last.op = "train"
    /\ last.version = "rf"
    /\ \A fn \in ModelCalls : Called(last, fn)

\* C9: for every home_dir (a directory, None, the empty string) the CSV path
\* gen_training_data writes is the path a slow-path train with the same
\* home_dir reads.
C9_CsvWrittenWhereRead ==
    [][(/\ last.op = "gen_training_data"
        /\ last'.op = "train"
        /\ nops' = nops + 1
        /\ last'.home_dir = last.home_dir
        /\ Called(last', "_load_pdbbind_desc")) =>
         \A w \in CallsOf(last, "_gen_pdbbind_desc"),
            r \in CallsOf(last', "_load_pdbbind_desc") : r.path = w.path]_vars

TrainingCalls == {"isfile", "json.load", "_load_pdbbind_desc", "fit", "save"}

\* C10: for every pdbbind_version v passed to gen_json, the training it
\* performs uses v: the JSON document probed, the partition loaded and the
\* artifact named carry the v of the JSON document gen_json writes.
C10_ExportTrainsOnItsVersion ==
    last.op = "gen_json" =>
        \A i \in 1..Len(last.calls) :
            last.calls[i].fn \in TrainingCalls =>
                /\ last.calls[i].pv = last.pdbbind_version
                /\ last.calls[i].fn \in {"isfile", "json.load", "save"} =>
                      last.calls[i].path.name.pv = last.pdbbind_version

====
